---------------------------- MODULE Spec2Model ----------------------------
(***************************************************************************)
(* Salsa20 stream cipher (Salsa20_FINAL.c): the round functions, the core  *)
(* hash, the 32-byte key expansion and the stream driver s20_crypt, with   *)
(* the callers that invoke s20_crypt twice on one buffer.                  *)
(*                                                                         *)
(* A uint32_t is a pair <<lo, hi>> of 16-bit limbs (value lo + 2^16 * hi): *)
(* TLC's integers are 32-bit signed, so a full unsigned word does not fit  *)
(* in one of them.  A uint8_t is an integer in 0..255.  C arrays are       *)
(* 1-based sequences: a[j] in C is a[j + 1] here.                          *)
(***************************************************************************)
EXTENDS Integers, Sequences, FiniteSets, TLC

TwoTo8 == 256
TwoTo16 == 65536

Byte == 0..255

\* 2^e for e in 0..16
Pow2Tab == <<1, 2, 4, 8, 16, 32, 64, 128, 256, 512, 1024, 2048, 4096, 8192,
             16384, 32768, 65536>>
Pow2(e) == Pow2Tab[e + 1]

\* bitwise exclusive or of two naturals (C's ^ on unsigned operands)
RECURSIVE BitXor(_, _)
BitXor(a, b) ==
    IF a = 0 THEN b
    ELSE IF b = 0 THEN a
    ELSE ((a + b) % 2) + 2 * BitXor(a \div 2, b \div 2)

\* ------------------------------------------------------------------------
\* uint32_t arithmetic on limb pairs
\*
\* Where a value is used more than once, it is the argument of a function
\* (f[v], which TLC applies to the computed value of v) rather than of an
\* operator or a LET definition, which TLC may compute again at every use.
\* ------------------------------------------------------------------------

Limb == 0..65535
Word == Limb \X Limb
Shift == 1..31

U32(lo, hi) == <<lo, hi>>

\* a small natural (below 2^31) as a uint32_t, and back
ToU32(v) == <<v % TwoTo16, v \div TwoTo16>>
ToNat(w) == w[1] + TwoTo16 * w[2]

\* a + b on uint32_t: wraps modulo 2^32
Add32[v \in Word \X Word] ==
    <<(v[1][1] + v[2][1]) % TwoTo16,
      (v[1][2] + v[2][2] + ((v[1][1] + v[2][1]) \div TwoTo16)) % TwoTo16>>
U32Add(a, b) == Add32[<<a, b>>]

\* a ^ b on 16-bit operands, four bits at a time
XorTab == [a \in 0..15 |-> [b \in 0..15 |-> BitXor(a, b)]]
Xor16(a, b) ==
    XorTab[a % 16][b % 16]
    + 16 * XorTab[(a \div 16) % 16][(b \div 16) % 16]
    + 256 * XorTab[(a \div 256) % 16][(b \div 256) % 16]
    + 4096 * XorTab[a \div 4096][b \div 4096]

\* a ^ b on uint32_t
Xor32[v \in Word \X Word] ==
    <<Xor16(v[1][1], v[2][1]), Xor16(v[1][2], v[2][2])>>
U32Xor(a, b) == Xor32[<<a, b>>]

\* a < b on uint32_t
U32Lt(a, b) == a[2] < b[2] \/ (a[2] = b[2] /\ a[1] < b[1])

\* a % 64 and a / 64 on uint32_t
U32Mod64(a) == a[1] % 64
U32Div64(a) == <<(a[1] \div 64) + 1024 * (a[2] % 64), a[2] \div 64>>

\* value << s and value >> s on uint32_t, 0 < s < 16
U32ShlSmall(w, s) ==
    <<(w[1] % Pow2(16 - s)) * Pow2(s),
      (w[2] % Pow2(16 - s)) * Pow2(s) + (w[1] \div Pow2(16 - s))>>
U32ShrSmall(w, s) ==
    <<(w[1] \div Pow2(s)) + (w[2] % Pow2(s)) * Pow2(16 - s),
      w[2] \div Pow2(s)>>

\* value << s and value >> s on uint32_t, 0 < s < 32
U32Shl(w, s) ==
    IF s < 16 THEN U32ShlSmall(w, s)
    ELSE IF s = 16 THEN <<0, w[1]>>
    ELSE U32ShlSmall(<<0, w[1]>>, s - 16)
U32Shr(w, s) ==
    IF s < 16 THEN U32ShrSmall(w, s)
    ELSE IF s = 16 THEN <<w[2], 0>>
    ELSE U32ShrSmall(<<w[2], 0>>, s - 16)

\* a | b on uint32_t whose set bits are disjoint (as in rotl)
U32OrDisjoint(a, b) == <<a[1] + b[1], a[2] + b[2]>>

\* ------------------------------------------------------------------------
\* Round functions
\* ------------------------------------------------------------------------

\* (value << shift) | (value >> (32 - shift))
Rotl32[v \in Word \X Shift] ==
    U32OrDisjoint(U32Shl(v[1], v[2]), U32Shr(v[1], 32 - v[2]))
rotl(value, shift) == Rotl32[<<value, shift>>]

\* The four statements of s20_quarterround, each on the word slots
\* t = <<*y0, *y1, *y2, *y3>>.
Slots == Word \X Word \X Word \X Word
\* *y1 = *y1 ^ rotl(*y0 + *y3, 7)
QuarterStep1[t \in Slots] ==
    <<t[1], U32Xor(t[2], rotl(U32Add(t[1], t[4]), 7)), t[3], t[4]>>
\* *y2 = *y2 ^ rotl(*y1 + *y0, 9)
QuarterStep2[t \in Slots] ==
    <<t[1], t[2], U32Xor(t[3], rotl(U32Add(t[2], t[1]), 9)), t[4]>>
\* *y3 = *y3 ^ rotl(*y2 + *y1, 13)
QuarterStep3[t \in Slots] ==
    <<t[1], t[2], t[3], U32Xor(t[4], rotl(U32Add(t[3], t[2]), 13))>>
\* *y0 = *y0 ^ rotl(*y3 + *y2, 18)
QuarterStep4[t \in Slots] ==
    <<U32Xor(t[1], rotl(U32Add(t[4], t[3]), 18)), t[2], t[3], t[4]>>

\* the four word slots y0..y3 after the quarterround, as <<y0, y1, y2, y3>>
s20_quarterround(y0, y1, y2, y3) ==
    QuarterStep4[QuarterStep3[QuarterStep2[QuarterStep1[<<y0, y1, y2, y3>>]]]]

\* a 16-word array, and the C indices into it
Words16 == [1..16 -> Word]
Index16 == 0..15

\* v = <<y, a, b, c, d, q>>: the array y with the words q at a, b, c, d
PutFour[v \in Words16 \X Index16 \X Index16 \X Index16 \X Index16 \X Slots] ==
    [v[1] EXCEPT ![v[2] + 1] = v[6][1], ![v[3] + 1] = v[6][2],
                 ![v[4] + 1] = v[6][3], ![v[5] + 1] = v[6][4]]

\* v = <<y, a, b, c, d>>:
\* s20_quarterround(&y[a], &y[b], &y[c], &y[d]) on the 16-word array y
QuarterOn[v \in Words16 \X Index16 \X Index16 \X Index16 \X Index16] ==
    PutFour[<<v[1], v[2], v[3], v[4], v[5],
              s20_quarterround(v[1][v[2] + 1], v[1][v[3] + 1],
                               v[1][v[4] + 1], v[1][v[5] + 1])>>]

\* s20_rowround with every row taken in index order
s20_rowround_inorder(y) ==
    QuarterOn[<<QuarterOn[<<QuarterOn[<<QuarterOn[<<y, 0, 1, 2, 3>>],
                                        4, 5, 6, 7>>],
                            8, 9, 10, 11>>],
                12, 13, 14, 15>>]

s20_rowround(y) ==
    QuarterOn[<<QuarterOn[<<QuarterOn[<<QuarterOn[<<y, 0, 1, 2, 3>>],
                                        5, 6, 7, 4>>],
                            10, 11, 8, 9>>],
                15, 12, 13, 14>>]

s20_columnround(x) ==
    QuarterOn[<<QuarterOn[<<QuarterOn[<<QuarterOn[<<x, 0, 4, 8, 12>>],
                                        5, 9, 13, 1>>],
                            10, 14, 2, 6>>],
                15, 3, 7, 11>>]

s20_doubleround(x) == s20_rowround(s20_columnround(x))

\* ------------------------------------------------------------------------
\* Little-endian conversion
\* ------------------------------------------------------------------------

\* the word b[0] + (b[1] << 8) + (b[2] << 16) + (b[3] << 24) of the 4 bytes
\* b[off .. off + 3]
s20_littleendian(b, off) ==
    <<b[off + 1] + TwoTo8 * b[off + 2], b[off + 3] + TwoTo8 * b[off + 4]>>

\* the 4 bytes (uint8_t) w, w >> 8, w >> 16, w >> 24
s20_rev_littleendian(w) ==
    <<w[1] % TwoTo8, w[1] \div TwoTo8, w[2] % TwoTo8, w[2] \div TwoTo8>>

\* ------------------------------------------------------------------------
\* Core hash
\* ------------------------------------------------------------------------

HashRounds == 10

\* a 64-byte block
Block == [1..64 -> Byte]

\* v = <<z, cnt>>: z after cnt more calls of s20_doubleround
DoubleRounds[v \in Words16 \X (0..HashRounds)] ==
    IF v[2] = 0 THEN v[1]
    ELSE DoubleRounds[<<s20_doubleround(v[1]), v[2] - 1>>]

\* x[i] = z[i] = s20_littleendian(seq + (4 * i))
HashWords[seq \in Block] ==
    [w \in 1..16 |-> s20_littleendian(seq, 4 * (w - 1))]

\* v = <<x, z>>: z[i] += x[i]; s20_rev_littleendian(seq + (4 * i), z[i])
HashOut[v \in Words16 \X Words16] ==
    [p \in 1..64 |->
        s20_rev_littleendian(
            U32Add(v[2][((p - 1) \div 4) + 1],
                   v[1][((p - 1) \div 4) + 1]))[((p - 1) % 4) + 1]]

\* v = <<x, z>>, both the decoded input: the rounds on z, then the sum
HashRun[v \in Words16 \X Words16] ==
    HashOut[<<v[1], DoubleRounds[<<v[2], HashRounds>>]>>]

\* the 64 bytes of seq after s20_hash(seq)
s20_hash(seq) == HashRun[<<HashWords[seq], HashWords[seq]>>]

\* ------------------------------------------------------------------------
\* Key expansion
\* ------------------------------------------------------------------------

\* sigma, "expand 32-byte k", as o[4][4]
o == << <<101, 120, 112, 97>>, <<110, 100, 32, 51>>,
        <<50, 45, 98, 121>>, <<116, 101, 32, 107>> >>

\* keystream[] as s20_expand32 leaves it just before it calls s20_hash:
\* the constants at i = 0, 20, 40, 60, then the key halves and n
\* s20_expand32 whose copy loop stops one short (i < 15)
s20_expand32_fill_short(k, n, keystream) ==
    [p \in 1..64 |->
        IF p - 1 \in 24..38 THEN n[p - 24]
        ELSE IF p - 1 \in 44..58 THEN k[p - 44 + 16]
        ELSE IF p - 1 \in 4..18 THEN k[p - 4]
        ELSE IF (p - 1) % 20 < 4
             THEN o[((p - 1) \div 20) + 1][((p - 1) % 20) + 1]
             ELSE keystream[p]]

s20_expand32_fill(k, n, keystream) ==
    [p \in 1..64 |->
        IF p - 1 \in 24..39 THEN n[p - 24]
        ELSE IF p - 1 \in 44..59 THEN k[p - 44 + 16]
        ELSE IF p - 1 \in 4..19 THEN k[p - 4]
        ELSE IF (p - 1) % 20 < 4
             THEN o[((p - 1) \div 20) + 1][((p - 1) % 20) + 1]
             ELSE keystream[p]]

s20_expand32(k, n, keystream) == s20_hash(s20_expand32_fill(k, n, keystream))

\* ------------------------------------------------------------------------
\* Stream driver: the expressions of s20_crypt's loop.  si and i are in
\* scope in all of them.
\* ------------------------------------------------------------------------

\* the loop test as i <= buflen
LoopCond_le(i, buflen) == ~U32Lt(buflen, i)

\* for (...; i < buflen; ...)
LoopCond(i, buflen) == U32Lt(i, buflen)

\* ++i
NextIndex(i) == U32Add(i, <<1, 0>>)

\* the block test on the absolute stream position, (si + i) % 64 == 0
NeedBlock_abs(si, i) == U32Mod64(U32Add(si, i)) = 0

\* (i) % 64 == 0
NeedBlock(si, i) == U32Mod64(i) = 0

\* the counter of the absolute stream position, (si + i) / 64
BlockCounter_abs(si, i) == U32Div64(U32Add(si, i))

\* ((i) / 64)
BlockCounter(si, i) == U32Div64(i)

\* the counter written to n+12, the high half of the counter field
SetCounter_high(n, c) ==
    [j \in 1..16 |->
        IF j - 1 \in 12..15 THEN s20_rev_littleendian(c)[j - 12] ELSE n[j]]

\* s20_rev_littleendian(n+8, c): bytes 8..11 of n hold c, the rest is kept
SetCounter(n, c) ==
    [j \in 1..16 |->
        IF j - 1 \in 8..11 THEN s20_rev_littleendian(c)[j - 8] ELSE n[j]]

\* the keystream index without the starting index, i % 64
KsIndex_nosi(si, i) == U32Mod64(i)

\* (si + i) % 64, the sum taken in uint32_t
KsIndex(si, i) == U32Mod64(U32Add(si, i))

\* buf[i] += keystream[(si + i) % 64]
XorByte_add(buf, keystream, si, i) ==
    [buf EXCEPT ![ToNat(i) + 1] = (@ + keystream[KsIndex(si, i) + 1]) % TwoTo8]

\* buf[i] ^= keystream[(si + buf[i]) % 64]
XorByte_bufindex(buf, keystream, si, i) ==
    [buf EXCEPT ![ToNat(i) + 1] =
        BitXor(@, keystream[KsIndex(si, ToU32(@)) + 1])]

\* buf[i] ^= keystream[(si + i) % 64]
XorByte(buf, keystream, si, i) ==
    [buf EXCEPT ![ToNat(i) + 1] = BitXor(@, keystream[KsIndex(si, i) + 1])]

\* ------------------------------------------------------------------------
\* Inputs
\* ------------------------------------------------------------------------

\* the longest buffer
MaxBufLen == 129

\* main's key and nonce, and a key and a nonce whose bytes are all distinct
KeyMain == [j \in 1..32 |-> IF j = 1 THEN 8 ELSE 0]
KeyAlt == [j \in 1..32 |-> (37 * (j - 1) + 201) % 256]
NonceMain == [j \in 1..8 |-> 0]
NonceAlt == [j \in 1..8 |-> (255 - 29 * (j - 1)) % 256]
\* the callers' key and nonce pairs
KeyNonces == {<<KeyMain, NonceMain>>, <<KeyAlt, NonceAlt>>}

\* starting indices: on and off a block boundary, below and above one block,
\* and two for which si + i wraps around 2^32
SiSet == {ToU32(0), ToU32(1), ToU32(64), ToU32(69),
          U32(65535, 65535), U32(65472, 65535)}

\* buffer lengths: empty, one byte, around one and two blocks
BufLens == {0, 1, 64, 65, 128, MaxBufLen}

\* the caller's buffer of len bytes
Plain(len) == [j \in 1..len |-> (7 * j + 58) % 256]

\* b with the byte at C index p changed
Flip(b, p) == [b EXCEPT ![p + 1] = (@ + 1) % 256]

\* positions at which the second buffer of a "flip" caller differs
FlipPositions(len) == {p \in {0, 70} : p < len}

\* what an uninitialized stack array may hold
StackGarbage == {[j \in 1..64 |-> 0], [j \in 1..64 |-> 165]}

\* ------------------------------------------------------------------------
\* State
\* ------------------------------------------------------------------------

VARIABLES
    scenario,   \* which caller: "twice" (main), "flip", "simod"
    flipAt,     \* the "flip" caller's position
    key, nonce, si, buf, buflen,   \* s20_crypt's arguments (buf: *buf)
    keystream, n, i,               \* s20_crypt's locals
    pc,         \* "idle": about to call, "loop": in the byte loop, "ret"
    calls,      \* calls of s20_crypt started
    plain,      \* the buffer before the first call
    input,      \* the buffer at the start of the current call
    fields,     \* the n handed to each s20_expand32 of the current call
    fills,      \* what s20_expand32 handed to s20_hash the last time
    regen,      \* the i at which the current call produced a block
    offs,       \* the keystream index read at each i of the current call
    first,      \* the first call: its si, output, fields and offs
    saved       \* the key and the nonce as the caller set them up

vars == <<scenario, flipAt, key, nonce, si, buf, buflen, keystream, n, i,
          pc, calls, plain, input, fields, fills, regen, offs, first, saved>>

args == <<key, nonce, si, buf, buflen>>
ghost == <<plain, input, fields, fills, regen, offs, first, saved>>

Init ==
    /\ scenario \in {"twice", "flip", "simod"}
    /\ \E kn \in KeyNonces : key = kn[1] /\ nonce = kn[2]
    /\ si \in SiSet
    /\ \E len \in BufLens :
          /\ buflen = ToU32(len)
          /\ buf = Plain(len)
          /\ plain = Plain(len)
          /\ input = Plain(len)
          /\ flipAt \in IF scenario = "flip" THEN FlipPositions(len) ELSE {0}
    /\ keystream = <<>>
    /\ n = <<>>
    /\ i = ToU32(0)
    /\ pc = "idle"
    /\ calls = 0
    /\ fields = <<>>
    /\ fills = <<>>
    /\ regen = <<>>
    /\ offs = <<>>
    /\ first = <<>>
    /\ saved = [key |-> key, nonce |-> nonce]

\* s20_crypt up to its byte loop: the locals, n = nonce followed by zeros
Call ==
    /\ pc = "idle"
    /\ keystream' \in StackGarbage
    /\ n' = [j \in 1..16 |-> IF j <= 8 THEN nonce[j] ELSE 0]
    /\ i' = ToU32(0)
    /\ pc' = "loop"
    /\ calls' = calls + 1
    /\ input' = buf
    /\ fields' = <<>>
    /\ fills' = <<>>
    /\ regen' = <<>>
    /\ offs' = <<>>
    /\ UNCHANGED <<scenario, flipAt, args, plain, first, saved>>

\* one iteration of the byte loop
LoopStep ==
    /\ pc = "loop"
    /\ LoopCond(i, buflen)
    /\ IF NeedBlock(si, i)
       THEN /\ n' = SetCounter(n, BlockCounter(si, i))
            /\ keystream' = s20_expand32(key, n', keystream)
            /\ fields' = Append(fields, n')
            /\ fills' = s20_expand32_fill(key, n', keystream)
            /\ regen' = Append(regen, i)
       ELSE UNCHANGED <<n, keystream, fields, fills, regen>>
    /\ buf' = XorByte(buf, keystream', si, i)
    /\ offs' = Append(offs, KsIndex(si, i))
    /\ i' = NextIndex(i)
    /\ UNCHANGED <<scenario, flipAt, key, nonce, si, buflen, pc, calls,
                   plain, input, first, saved>>

\* the loop ends and s20_crypt returns: its locals are gone
LoopExit ==
    /\ pc = "loop"
    /\ ~LoopCond(i, buflen)
    /\ pc' = "ret"
    /\ keystream' = <<>>
    /\ n' = <<>>
    /\ UNCHANGED <<scenario, flipAt, args, i, calls, ghost>>

\* what the caller keeps of the first call
FirstCall == [si |-> si, out |-> buf, fields |-> fields, offs |-> offs]

\* main: the second call, on the first one's output with the same arguments
MainDecrypt ==
    /\ pc = "ret" /\ calls = 1 /\ scenario = "twice"
    /\ pc' = "idle"
    /\ first' = FirstCall
    /\ UNCHANGED <<scenario, flipAt, args, keystream, n, i, calls, plain,
                   input, fields, fills, regen, offs, saved>>

\* a caller that runs the same call on a buffer differing at flipAt
CallFlipped ==
    /\ pc = "ret" /\ calls = 1 /\ scenario = "flip"
    /\ pc' = "idle"
    /\ first' = FirstCall
    /\ buf' = Flip(plain, flipAt)
    /\ UNCHANGED <<scenario, flipAt, key, nonce, si, buflen, keystream, n, i,
                   calls, plain, input, fields, fills, regen, offs, saved>>

\* a caller that runs the same call on the same buffer with si % 64 for si
CallReduced ==
    /\ pc = "ret" /\ calls = 1 /\ scenario = "simod"
    /\ pc' = "idle"
    /\ first' = FirstCall
    /\ buf' = plain
    /\ si' = ToU32(U32Mod64(si))
    /\ UNCHANGED <<scenario, flipAt, key, nonce, buflen, keystream, n, i,
                   calls, plain, input, fields, fills, regen, offs, saved>>

Next ==
    \/ Call
    \/ LoopStep
    \/ LoopExit
    \/ MainDecrypt
    \/ CallFlipped
    \/ CallReduced

Spec == Init /\ [][Next]_vars

\* s20_crypt has no suspension point: a step that can be taken is taken
FairSpec == Spec /\ WF_vars(Next)

\* ------------------------------------------------------------------------
\* Properties
\* ------------------------------------------------------------------------

\* the buffer length and si % 64 as naturals
BufLen == ToNat(buflen)
SiMod == si[1] % 64

\* s20_crypt has returned from its first / second call
Returned(c) == pc = "ret" /\ calls = c

\* the 16-byte field of block c as the specification gives it: the nonce,
\* the 32-bit little-endian encoding of c, four zero bytes
FieldOf(c) ==
    [j \in 1..16 |->
        IF j <= 8 THEN nonce[j]
        ELSE IF j = 9 THEN c % 256
        ELSE IF j = 10 THEN (c \div 256) % 256
        ELSE IF j = 11 THEN (c \div 65536) % 256
        ELSE IF j = 12 THEN c \div 16777216
        ELSE 0]

\* the counter a field holds in its bytes 8..11
CounterIn(f) == f[9] + 256 * f[10] + 65536 * f[11] + 16777216 * f[12]

\* the number of 64-byte blocks that len bytes take
Blocks(len) == (len + 63) \div 64

\* C1: a second call of s20_crypt with the same key, nonce, si and buflen on
\* the output of the first one leaves the buffer as it was before the first.
C1_Involution ==
    (scenario = "twice" /\ Returned(2)) => buf = plain

C1_Witness ==
    /\ scenario = "twice" /\ Returned(2)
    /\ BufLen = MaxBufLen
    /\ si = U32(65535, 65535)
    /\ \A j \in 1..BufLen : first.out[j] # plain[j]
    /\ buf = plain

\* C2: when s20_crypt returns, every byte buf[j] is its value at the call
\* xor byte (si + j) mod 64 of the block that Block Expansion produces from
\* the key and the field nonce, LE32(j div 64), four zero bytes.
C2_PerByte ==
    pc = "ret" =>
        /\ Len(buf) = BufLen
        /\ \A c \in 0..(Blocks(BufLen) - 1) :
              LET block == s20_expand32(key, FieldOf(c), [p \in 1..64 |-> 0])
              IN  \A j \in (64 * c)..(64 * c + 63) :
                     j < BufLen =>
                        buf[j + 1] =
                           BitXor(input[j + 1], block[((SiMod + j) % 64) + 1])

C2_Witness ==
    /\ Returned(1)
    /\ BufLen = 128
    /\ SiMod = 5
    /\ key = KeyAlt
    /\ \E j \in 1..64 : buf[j] # input[j]
    /\ \E j \in 65..128 : buf[j] # input[j]

\* C3: within one call the counters handed to Block Expansion are
\* 0, 1, 2, ... in this order, one per 64 bytes processed, whatever si is;
\* at the return there are ceil(buflen / 64) of them.
C3_CounterSequence ==
    pc \in {"loop", "ret"} =>
        /\ Len(fields) = Blocks(Len(offs))
        /\ \A k \in 1..Len(fields) : CounterIn(fields[k]) = k - 1
        /\ pc = "ret" => Len(fields) = Blocks(BufLen)

C3_Witness ==
    /\ Returned(2)
    /\ si = ToU32(69)
    /\ Len(fields) = 3
    /\ CounterIn(fields[3]) = 2

\* C4: a call with buflen = 0 changes no byte of buf, leaves key and nonce
\* alone and never invokes Block Expansion.
C4_ZeroLength ==
    BufLen = 0 =>
        /\ buf = plain
        /\ key = saved.key /\ nonce = saved.nonce
        /\ fields = <<>> /\ fills = <<>> /\ regen = <<>> /\ offs = <<>>

C4_Witness ==
    /\ BufLen = 0
    /\ Returned(2)
    /\ buf = <<>>

\* the keystream byte a call xored at position j (C index), read off its
\* input and its output
Xored(in, out, j) == BitXor(in[j + 1], out[j + 1])

\* C5: two calls with the same key, nonce, si and buflen on buffers that
\* differ only at position flipAt xor the same keystream byte at every
\* position, so their outputs differ exactly at flipAt.
C5_BlockIndependence ==
    (scenario = "flip" /\ Returned(2)) =>
        /\ \A j \in 0..(BufLen - 1) :
              /\ (input[j + 1] # plain[j + 1]) <=> (j = flipAt)
              /\ Xored(input, buf, j) = Xored(plain, first.out, j)
              /\ (buf[j + 1] # first.out[j + 1]) <=> (j = flipAt)

C5_Witness ==
    /\ scenario = "flip" /\ Returned(2)
    /\ flipAt = 70
    /\ BufLen = MaxBufLen
    /\ buf[71] # first.out[71]
    /\ buf[1] = first.out[1]

\* uint32_t values at the top of the range and around a block
EdgeValues ==
    {U32(65535, 65535), U32(65534, 65535), U32(0, 65535), U32(65535, 0),
     ToU32(0), ToU32(1), ToU32(64)}

\* C6: the byte loop ends, after exactly buflen iterations: the index counts
\* the iterations and stays within buflen, an iteration that the loop test
\* admits never wraps the index, and both calls return.
C6_Termination ==
    /\ [](pc \in {"loop", "ret"} =>
             /\ ToNat(i) = Len(offs)
             /\ Len(offs) <= BufLen
             /\ pc = "ret" => Len(offs) = BufLen)
    /\ [](\A a \in EdgeValues : \A b \in EdgeValues :
             LoopCond(a, b) =>
                 /\ U32Lt(a, NextIndex(a))
                 /\ ~U32Lt(b, NextIndex(a)))
    /\ <>(Returned(2) /\ Len(offs) = BufLen /\ Len(first.offs) = BufLen)

C6_Witness ==
    /\ Returned(2)
    /\ BufLen = MaxBufLen
    /\ Len(offs) = MaxBufLen
    /\ i = buflen

\* C7: the 64 bytes that s20_expand32 hands to s20_hash are "expa", k[0..15],
\* "nd 3", n[0..15], "2-by", k[16..31], "te k", whatever keystream[] held
\* before, and k and n are as they were.
C7_ExpandLayout ==
    fields # <<>> =>
        /\ fills = <<101, 120, 112, 97>> \o SubSeq(key, 1, 16)
                   \o <<110, 100, 32, 51>> \o fields[Len(fields)]
                   \o <<50, 45, 98, 121>> \o SubSeq(key, 17, 32)
                   \o <<116, 101, 32, 107>>
        /\ key = saved.key
        /\ pc = "loop" => n = fields[Len(fields)]

C7_Witness ==
    /\ pc = "loop"
    /\ Len(fields) = 2
    /\ key = KeyAlt /\ nonce = NonceAlt
    /\ fills[25] = 255 /\ fills[33] = 1 /\ fills[60] = 68

\* The core hash as the specification words it: index tuples, ten
\* double-rounds of a column-round and a row-round, feed-forward.
ColumnTuples ==
    << <<0, 4, 8, 12>>, <<5, 9, 13, 1>>, <<10, 14, 2, 6>>, <<15, 3, 7, 11>> >>
RowTuples ==
    << <<0, 1, 2, 3>>, <<5, 6, 7, 4>>, <<10, 11, 8, 9>>, <<15, 12, 13, 14>> >>

RefQuarter(w, t) ==
    LET y0 == w[t[1] + 1]
        y1 == w[t[2] + 1]
        y2 == w[t[3] + 1]
        y3 == w[t[4] + 1]
        z1 == U32Xor(y1, rotl(U32Add(y0, y3), 7))
        z2 == U32Xor(y2, rotl(U32Add(z1, y0), 9))
        z3 == U32Xor(y3, rotl(U32Add(z2, z1), 13))
        z0 == U32Xor(y0, rotl(U32Add(z3, z2), 18))
    IN  [k \in 1..16 |->
            IF k = t[1] + 1 THEN z0
            ELSE IF k = t[2] + 1 THEN z1
            ELSE IF k = t[3] + 1 THEN z2
            ELSE IF k = t[4] + 1 THEN z3
            ELSE w[k]]

RECURSIVE RefRound(_, _, _)
RefRound(w, tuples, k) ==
    IF k = 0 THEN w ELSE RefQuarter(RefRound(w, tuples, k - 1), tuples[k])

RECURSIVE RefDoubleRounds(_, _)
RefDoubleRounds(w, cnt) ==
    IF cnt = 0 THEN w
    ELSE LET prev == RefDoubleRounds(w, cnt - 1)
             next == RefRound(RefRound(prev, ColumnTuples, 4), RowTuples, 4)
         IN  IF DOMAIN prev = 1..16 THEN SubSeq(next, 1, 16) ELSE prev

RefDecode(b) ==
    [k \in 1..16 |->
        <<b[4 * k - 3] + 256 * b[4 * k - 2], b[4 * k - 1] + 256 * b[4 * k]>>]

RefEncode(w) ==
    [p \in 1..64 |->
        LET limb == w[((p - 1) \div 4) + 1][((p - 1) % 4) \div 2 + 1]
        IN  IF p % 2 = 1 THEN limb % 256 ELSE limb \div 256]

RefHash(b) ==
    LET x0 == RefDecode(b)
        z == RefDoubleRounds(x0, 10)
    IN  RefEncode([k \in 1..16 |-> U32Add(x0[k], z[k])])

\* C8: the block that s20_hash leaves in keystream[] is the little-endian
\* encoding of x + z (mod 2^32, word by word), z being the decoded input x
\* after ten double-rounds over the stated index tuples.
C8_CoreHash ==
    (pc = "loop" /\ regen # <<>> /\ i = NextIndex(regen[Len(regen)])) =>
        keystream = RefHash(fills)

C8_Witness ==
    /\ pc = "loop"
    /\ Len(regen) = 2
    /\ i = ToU32(65)
    /\ key = KeyMain /\ nonce = NonceMain
    /\ keystream # fills
    /\ keystream = RefHash(fills)

\* C9: a block is produced exactly at the positions j with j mod 64 = 0 and
\* the byte read at position j is at offset (si + j) mod 64; with
\* si mod 64 = 0 a block is read in the order 0, 1, ..., 63 from its first
\* byte on, with any other si the first byte read of every block is at
\* offset si mod 64, not 0.
C9_Alignment ==
    pc \in {"loop", "ret"} =>
        /\ Len(regen) = Blocks(Len(offs))
        /\ \A k \in 1..Len(regen) : ToNat(regen[k]) = 64 * (k - 1)
        /\ \A j \in 0..(Len(offs) - 1) :
              /\ offs[j + 1] = (SiMod + j) % 64
              /\ SiMod = 0 => offs[j + 1] = j % 64
              /\ (SiMod # 0 /\ j % 64 = 0) =>
                    (offs[j + 1] = SiMod /\ offs[j + 1] # 0)

C9_Witness ==
    /\ pc = "ret"
    /\ si = ToU32(69)
    /\ Len(regen) = 3
    /\ offs[1] = 5 /\ offs[65] = 5 /\ offs[129] = 5
    /\ offs[60] = 0

\* C10: a call with si and a call with si mod 64 on the same buffer give
\* the same output, hand the same fields to Block Expansion and read the
\* same keystream offsets, all of them within 0..63, also when si + i wraps
\* around 2^32.
C10_SiMod64 ==
    /\ \A j \in 1..Len(offs) : offs[j] \in 0..63
    /\ (scenario = "simod" /\ Returned(2)) =>
          /\ si = ToU32(first.si[1] % 64)
          /\ input = plain
          /\ buf = first.out
          /\ fields = first.fields
          /\ offs = first.offs

C10_Witness ==
    /\ scenario = "simod" /\ Returned(2)
    /\ first.si = U32(65535, 65535)
    /\ si = ToU32(63)
    /\ BufLen = MaxBufLen
    /\ buf = first.out
    /\ buf # plain

=============================================================================
